---- MODULE Spec2Model ----
(***************************************************************************)
(* Model of the LINE reminder bot: the patient registry kept in a Google   *)
(* Sheet (sheets_utils.py), the two cron-triggered runs (app.py,           *)
(* daily_push.py, monthly_stats.py, gcal_utils.py) and the two title       *)
(* parsers (extract_patient_name, count_session_from_title).               *)
(*                                                                         *)
(* Text (titles, names, user ids, sheet cells) is a sequence of one-       *)
(* character strings, so that strip(), split() and the regular             *)
(* expressions are computed on characters as the code computes them.       *)
(***************************************************************************)
EXTENDS Integers, Sequences, FiniteSets, TLC

\* ------------------------------------------------------------------ bounds
\* longest title enumerated by the title specification
MaxTitleLen == 4
\* most data rows the registry sheet holds
MaxRows == 3
\* most pages one calendar returns for one window
MaxPages == 2
\* most events one run collects
MaxResults == 3

\* ------------------------------------------------------- character helpers
Digits == {"0", "1", "2", "3", "4", "5", "6", "7", "8", "9"}

IsDigit(c) == c \in Digits

\* \s of the regular expressions and the characters str.strip() removes
IsSpace(c) == c = " "

\* int(x) of a one-digit string
DigitVal(c) ==
    CASE c = "0" -> 0 [] c = "1" -> 1 [] c = "2" -> 2 [] c = "3" -> 3
      [] c = "4" -> 4 [] c = "5" -> 5 [] c = "6" -> 6 [] c = "7" -> 7
      [] c = "8" -> 8 [] c = "9" -> 9

\* least element of a set of positions, 0 when there is none
FirstIdx(S) == IF S = {} THEN 0 ELSE CHOOSE i \in S : \A j \in S : i <= j

RECURSIVE LStrip(_)
LStrip(s) ==
    IF s = <<>> THEN s
    ELSE IF IsSpace(Head(s)) THEN LStrip(Tail(s)) ELSE s

RECURSIVE RStrip(_)
RStrip(s) ==
    IF s = <<>> THEN s
    ELSE IF IsSpace(s[Len(s)]) THEN RStrip(SubSeq(s, 1, Len(s) - 1)) ELSE s

\* str.strip()
Strip(s) == RStrip(LStrip(s))

\* first position at or after j that holds no whitespace (Len(s)+1 at the end)
SkipSpaces(s, j) ==
    FirstIdx({k \in j..(Len(s) + 1) : k = Len(s) + 1 \/ ~IsSpace(s[k])})

\* ------------------------------------------------- daily_push: name parser
\* "-" in s
HasHyphen(s) == \E i \in 1..Len(s) : s[i] = "-"

\* the part after the last hyphen, as s.rsplit("-", 1)[1] gives it
AfterLastHyphen(s) ==
    LET hy == {k \in 1..Len(s) : s[k] = "-"}
    IN  SubSeq(s, (CHOOSE k \in hy : \A j \in hy : j <= k) + 1, Len(s))

\* s.split("-", 1)[1]
AfterFirstHyphen(s) ==
    LET i == FirstIdx({k \in 1..Len(s) : s[k] = "-"})
    IN  SubSeq(s, i + 1, Len(s))

\* the full-width left parenthesis U+FF08, written as an ASCII token
FullWidthParen == "FW("

\* re.search of the class [digit, "(", U+FF08] in s: position of the first
\* match, 0 for no match
NameStop(s) ==
    FirstIdx({k \in 1..Len(s) :
                 IsDigit(s[k]) \/ s[k] = "(" \/ s[k] = FullWidthParen})

extract_patient_name(summary) ==
    LET s0 == Strip(summary)
        s1 == IF HasHyphen(s0) THEN AfterFirstHyphen(s0) ELSE s0
        s2 == Strip(s1)
        m  == NameStop(s2)
        s3 == IF m # 0 THEN SubSeq(s2, 1, m - 1) ELSE s2
    IN  Strip(s3)

\* --------------------------------------- monthly_stats: session classifier
\* RE_45.search(t): the optional unit suffix never decides the match
RE_45(t) == \E i \in 1..(Len(t) - 1) : t[i] = "4" /\ t[i + 1] = "5"

\* one group  \s*\+\s*(\d)  starting at position j: the position of its
\* digit, 0 when the group does not match there
PlusGroup(t, j) ==
    LET a == SkipSpaces(t, j)
    IN  IF a <= Len(t) /\ t[a] = "+"
        THEN LET b == SkipSpaces(t, a + 1)
             IN  IF b <= Len(t) /\ IsDigit(t[b]) THEN b ELSE 0
        ELSE 0

\* RE_MULTI.search(t).start(): leftmost digit followed by a "+digit" group
RE_MULTI(t) ==
    FirstIdx({i \in 1..Len(t) : IsDigit(t[i]) /\ PlusGroup(t, i + 1) # 0})

\* how many characters of s equal c
RECURSIVE CountChar(_, _)
CountChar(s, c) ==
    IF s = <<>> THEN 0
    ELSE (IF Head(s) = c THEN 1 ELSE 0) + CountChar(Tail(s), c)

count_session_from_title(title) ==
    LET t == Strip(title)
        m_multi == RE_MULTI(t)
    IN  IF RE_45(t) THEN <<0, 0, 1>>
        ELSE IF m_multi # 0
        THEN \* re.findall(r"\d", t[m_multi.start():]): every digit up to
             \* the end of the title
             LET rest == SubSeq(t, m_multi, Len(t))
             IN  <<CountChar(rest, "2"), CountChar(rest, "1"), 0>>
        ELSE IF t # <<>> /\ IsDigit(t[Len(t)])
        THEN LET n == DigitVal(t[Len(t)])
             IN  IF n = 2 THEN <<1, 0, 0>>
                 ELSE IF n = 1 THEN <<0, 1, 0>>
                 ELSE <<0, 1, 0>>
        ELSE <<0, 1, 0>>

\* --------------------------------------------- monthly_stats: date helpers
IsLeap(y) == (y % 4 = 0 /\ y % 100 # 0) \/ y % 400 = 0

\* length of a month of the proleptic Gregorian calendar (datetime)
DaysInMonth(y, m) ==
    IF m = 2 THEN (IF IsLeap(y) THEN 29 ELSE 28)
    ELSE IF m \in {4, 6, 9, 11} THEN 30 ELSE 31

\* dt + timedelta(days=1)
Tomorrow(dt) ==
    IF dt.d < DaysInMonth(dt.y, dt.m) THEN [dt EXCEPT !.d = dt.d + 1]
    ELSE IF dt.m < 12 THEN [y |-> dt.y, m |-> dt.m + 1, d |-> 1]
    ELSE [y |-> dt.y + 1, m |-> 1, d |-> 1]

\* a guard that looks two days ahead
is_within_two_days_of_month_end(dt) == Tomorrow(Tomorrow(dt)).m # dt.m

is_last_day_of_month(dt) == Tomorrow(dt).m # dt.m

\* a month_range that always steps to month + 1 of the same year
month_range_same_year(dt) ==
    <<[y |-> dt.y, m |-> dt.m, d |-> 1], [y |-> dt.y, m |-> dt.m + 1, d |-> 1]>>

month_range(dt) ==
    LET first == [y |-> dt.y, m |-> dt.m, d |-> 1]
        next_first == IF dt.m = 12 THEN [y |-> dt.y + 1, m |-> 1, d |-> 1]
                      ELSE [y |-> dt.y, m |-> dt.m + 1, d |-> 1]
    IN  <<first, next_first>>

\* ------------------------------------------------------------------- state
VARIABLES
    \* the registry sheet
    header,       \* row 1, cells A1:C1
    rows,         \* rows 2.., each [displayName, realName, userId]
    call,         \* the last upsert_patient call: its arguments
    prev,         \* rows as they were when that call started
    \* one triggered run (app.py trigger_* and the main() it calls)
    pc,           \* where the run is
    task,         \* "daily" or "monthly"
    secretOk,     \* whether the request carried the configured secret
    now,          \* monthly_stats.main: datetime.now(TZ), as a date
    cal,          \* the fetch loops: index into CALENDAR_IDS
    page,         \* the fetch loops: pages of this calendar fetched so far
    served,       \* the calendar API: events this listing has returned
    results,      \* the fetch loops: events collected
    pats,         \* daily_push.main: read_patients()
    idx,          \* the loops of main: how many entries are done
    not_found,    \* daily_push.main: the follow-up entries
    admin_text,   \* daily_push.main: the digest / monthly: the report
    pushed,       \* push_message calls of this run, in order
    resp,         \* the trigger's HTTP response, code 0 while running
    fault,        \* the upstream API that raised in this run, if any
    effects,      \* the kinds of external calls made in this run
    sheet0,       \* the sheet as it was when the run was triggered
    \* the title functions, applied to one title
    title,
    applied,      \* the function applied to it, if any
    sessions,     \* count_session_from_title(title)
    name,         \* extract_patient_name(title)
    \* month_range, applied to one day
    today,
    window        \* month_range(today), <<>> before the call

regVars == <<header, rows, call, prev>>
runVars == <<pc, task, secretOk, sheet0, now, cal, page, served, results, pats, idx,
             not_found, admin_text, pushed, resp, fault, effects, sheet0>>
fnVars == <<title, applied, sessions, name, today, window>>
vars == <<regVars, runVars, fnVars>>

\* values for "nothing yet"
None == "None"
NoCall == [display |-> <<>>, uid |-> <<>>]
NoDate == [y |-> 0, m |-> 0, d |-> 0]
NoSheet == [header |-> <<>>, rows |-> <<>>]
NoText == [kind |-> None, titles |-> <<>>, followup |-> {}, counts |-> <<>>]

\* ------------------------------------------------- sheets_utils: registry
HEADER == <<"displayName", "realName", "userId">>

\* _ensure_header: row 1 after the call
EnsuredHeader(h) == IF h # HEADER THEN HEADER ELSE h

\* read_patients, the loop over the rows of A2:C: the rows with a user id,
\* stripped, in sheet order
RECURSIVE read_patients(_)
read_patients(rs) ==
    IF rs = <<>> THEN <<>>
    ELSE LET r   == Head(rs)
             dn  == Strip(r.displayName)
             rn  == Strip(r.realName)
             uid == Strip(r.userId)
         IN  (IF uid # <<>>
              THEN <<[displayName |-> dn, realName |-> rn, userId |-> uid]>>
              ELSE <<>>) \o read_patients(Tail(rs))

\* upsert_patient, the search loop: position in data of the first record
\* with this user id (row_idx - 1), 0 for row_idx = None
FindPatient(data, user_id) ==
    FirstIdx({i \in 1..Len(data) : data[i].userId = user_id})

\* upsert_patient, the update branch: sheet row row_idx = k + 1 is the k-th
\* data row of the sheet
UpdateRow(rs, data, k, display_name, user_id) ==
    [rs EXCEPT ![k] = [displayName |-> display_name,
                       realName |-> data[k].realName,
                       userId |-> user_id]]

\* upsert_patient, the append branch
AppendRow(rs, display_name, user_id) ==
    Append(rs, [displayName |-> display_name, realName |-> <<>>,
                userId |-> user_id])

\* the rows of the sheet after upsert_patient(display_name, user_id)
upsert_patient(rs, display_name, user_id) ==
    LET data == read_patients(rs)
        k == FindPatient(data, user_id)
    IN  IF k = 0 THEN AppendRow(rs, display_name, user_id)
        ELSE UpdateRow(rs, data, k, display_name, user_id)

\* the user ids and profile names the webhook delivers
UserIds == {<<"u">>, <<"v">>, <<"w">>}
ProfileNames == {<<>>, <<"a">>, <<"c">>}

\* one upsert_patient call made by a webhook handler
Upsert(display_name, user_id) ==
    /\ FindPatient(read_patients(rows), user_id) = 0 => Len(rows) < MaxRows
    /\ header' = EnsuredHeader(header)
    /\ rows' = upsert_patient(rows, display_name, user_id)
    /\ call' = [display |-> display_name, uid |-> user_id]
    /\ prev' = rows

\* app.on_follow: the profile name, "" when get_profile raises
on_follow ==
    /\ \E uid \in UserIds, display_name \in ProfileNames :
          Upsert(display_name, uid)
    /\ UNCHANGED <<runVars, fnVars>>

\* app.on_message: display_name or "Unknown"; no upsert when get_profile
\* raises
on_message ==
    /\ \E uid \in UserIds, profile \in ProfileNames :
          Upsert(IF profile = <<>> THEN <<"Unknown">> ELSE profile, uid)
    /\ UNCHANGED <<runVars, fnVars>>

\* a handler whose Sheets call raises after _ensure_header wrote row 1: the
\* handler swallows the exception
upsert_fails ==
    /\ header # HEADER
    /\ header' = HEADER
    /\ UNCHANGED <<rows, call, prev, runVars, fnVars>>

\* the cells a sheet of the model holds
CellNames == {<<>>, <<"a">>}
CellReal == {<<>>, <<"b">>}
CellIds == {<<>>, <<"u">>, <<"v">>}

\* a sheet row; a row with three empty cells is not part of the data table
SheetRows ==
    {r \in [displayName : CellNames, realName : CellReal, userId : CellIds] :
        ~(r.displayName = <<>> /\ r.realName = <<>> /\ r.userId = <<>>)}

\* the id read_patients reads from a row
ExternalId(r) == Strip(r.userId)

UniqueIds(rs) ==
    \A i, j \in 1..Len(rs) :
        (i # j /\ ExternalId(rs[i]) # <<>>) =>
            ExternalId(rs[i]) # ExternalId(rs[j])

Sheets(n) == UNION {[1..k -> SheetRows] : k \in 0..n}

\* the run and the title variables while no run is in progress
RunIdle ==
    /\ pc = "idle" /\ task = None /\ secretOk = TRUE
    /\ now = NoDate /\ cal = 0 /\ page = 0 /\ served = {} /\ results = <<>>
    /\ pats = <<>> /\ idx = 0 /\ not_found = <<>> /\ admin_text = NoText
    /\ pushed = <<>> /\ resp = [code |-> 0, status |-> None, message |-> None]
    /\ fault = None /\ effects = {} /\ sheet0 = NoSheet

FnIdle ==
    /\ title = <<>> /\ applied = None /\ sessions = <<>> /\ name = <<>>
    /\ today = NoDate /\ window = <<>>

InitRegistry ==
    /\ header \in {HEADER, <<>>}
    /\ rows \in {rs \in Sheets(MaxRows) : UniqueIds(rs)}
    /\ call = NoCall /\ prev = <<>>
    /\ RunIdle /\ FnIdle

NextRegistry == on_follow \/ on_message \/ upsert_fails

SpecRegistry == InitRegistry /\ [][NextRegistry]_vars

\* C1: after any sequence of upsert_patient calls on a sheet whose non-empty
\* externalIds were distinct, no two rows hold the same non-empty externalId
C1_UniqueExternalId == UniqueIds(rows)

\* X was in the registry when the last call started
C2_Known == call # NoCall /\ FindPatient(read_patients(prev), call.uid) # 0

\* C2: upsert_patient(displayName, X) for an X already in the registry
\* changes only the displayName of X's own row: its realName is kept, every
\* other row (rows with an empty externalId too) is unchanged and no record
\* is lost
C2_UpdateFrame ==
    C2_Known =>
        /\ Len(rows) = Len(prev)
        /\ \A k \in 1..Len(prev) :
              IF ExternalId(prev[k]) = call.uid
              THEN rows[k] = [prev[k] EXCEPT !.displayName = call.display,
                                             !.userId = call.uid]
              ELSE rows[k] = prev[k]

\* ------------------------------------------------------ the triggered runs
\* app.py: CRON_SECRET, and what a request can carry in the X-Cron-Secret
\* header or the key parameter (None: absent)
CRON_SECRET == "my-secret-key"
SuppliedSecrets == {None, CRON_SECRET, "wrong"}

\* daily_push.py / monthly_stats.py: the configured calendars and admins
CALENDAR_IDS == <<"cal1", "cal2">>
ADMIN_USER_IDS == << <<"p">>, <<"q">> >>

\* the calendar's events: the title of the event with each id
\* ("x-a", "x-b2", "a" without a hyphen, "x- 2" without a name)
EventTitles ==
    << <<"x", "-", "a">>, <<"x", "-", "b", "2">>, <<"a">>,
       <<"x", "-", " ", "2">> >>

\* an item of events().list: mine stands for the creator / organizer /
\* attendee test of the fetch loops
ApiEvents ==
    [id : 1..Len(EventTitles), mine : BOOLEAN, cancelled : BOOLEAN]

\* the items of one page of a response
ApiPages == {<<>>} \cup {<<e>> : e \in ApiEvents}

\* the days datetime.now(TZ) is drawn from
Years == {2023, 2024}
Dates ==
    {dt \in [y : Years, m : 1..12, d : 1..31] : dt.d <= DaysInMonth(dt.y, dt.m)}

\* the registry sheets a run starts from
RunSheets ==
    { <<[displayName |-> <<"a", " ">>, realName |-> <<>>, userId |-> <<"u">>]>>,
      <<[displayName |-> <<"c">>, realName |-> <<" ", "b">>, userId |-> <<"v">>],
        [displayName |-> <<>>, realName |-> <<"d">>, userId |-> <<>>],
        [displayName |-> <<"a">>, realName |-> <<>>, userId |-> <<"u">>]>> }

Init ==
    /\ header \in {HEADER, <<>>}
    /\ rows \in RunSheets
    /\ call = NoCall /\ prev = <<>>
    /\ RunIdle /\ FnIdle

\* a check that compares only a secret that was supplied
UnauthorizedIfSupplied(auth_header, auth_query) ==
    /\ auth_header # None /\ auth_header # CRON_SECRET
    /\ auth_query # None /\ auth_query # CRON_SECRET

\* the check of both trigger endpoints
Unauthorized(auth_header, auth_query) ==
    (auth_header # CRON_SECRET) /\ (auth_query # CRON_SECRET)

\* a request to a trigger endpoint: 401, or the start of main()
Trigger(t, auth_header, auth_query, first) ==
    /\ pc \in {"idle", "done"}
    /\ task' = t
    /\ secretOk' = (auth_header = CRON_SECRET \/ auth_query = CRON_SECRET)
    /\ now' = NoDate /\ cal' = 1 /\ page' = 0 /\ served' = {}
    /\ results' = <<>>
    /\ pats' = <<>> /\ idx' = 0 /\ not_found' = <<>> /\ admin_text' = NoText
    /\ pushed' = <<>> /\ fault' = None /\ effects' = {}
    /\ sheet0' = [header |-> header, rows |-> rows]
    /\ IF Unauthorized(auth_header, auth_query)
       THEN /\ pc' = "done"
            /\ resp' = [code |-> 401, status |-> None, message |-> "Unauthorized"]
       ELSE /\ pc' = first
            /\ resp' = [code |-> 0, status |-> None, message |-> None]
    /\ UNCHANGED <<regVars, fnVars>>

trigger_daily_push ==
    \E h \in SuppliedSecrets, q \in SuppliedSecrets : Trigger("daily", h, q, "fetch")

trigger_monthly_stats ==
    \E h \in SuppliedSecrets, q \in SuppliedSecrets : Trigger("monthly", h, q, "guard")

\* the 200 and the 500 of the trigger endpoints
Success == [code |-> 200, status |-> "success", message |-> "done"]
Failure(cause) == [code |-> 500, status |-> "error", message |-> cause]

\* monthly_stats.main: the day-of-month guard
monthly_guard ==
    /\ pc = "guard"
    /\ \E dt \in Dates :
          /\ now' = dt
          /\ IF ~is_last_day_of_month(dt)
             THEN pc' = "done" /\ resp' = Success
             ELSE pc' = "fetch" /\ resp' = resp
    /\ UNCHANGED <<regVars, fnVars, task, secretOk, sheet0, cal, page, served, results,
                   pats, idx, not_found, admin_text, pushed, fault, effects>>

\* the items of a page the fetch loop keeps: "mine", and for the monthly
\* fetch not cancelled; the id is kept for the properties only (the dicts of
\* the code hold summary, start, end, location)
Kept(items) ==
    IF items = <<>> THEN <<>>
    ELSE LET ev == items[1]
         IN  IF ev.mine /\ (task = "monthly" => ~ev.cancelled)
             THEN <<[id |-> ev.id, summary |-> EventTitles[ev.id]]>>
             ELSE <<>>

\* get_tomorrow_events / fetch_my_events_in_range: one page of one calendar;
\* the listing of one calendar returns an event once, two calendars may
\* both hold it
fetch_page ==
    /\ pc = "fetch"
    /\ page < MaxPages
    /\ \E items \in ApiPages, more \in BOOLEAN :
          /\ more => page + 1 < MaxPages
          /\ \A k \in 1..Len(items) : items[k].id \notin served
          /\ Len(results) + Len(Kept(items)) <= MaxResults
          /\ results' = results \o Kept(items)
          /\ IF more
             THEN /\ page' = page + 1
                  /\ served' = served \cup {items[k].id : k \in 1..Len(items)}
                  /\ UNCHANGED <<cal, pc>>
             ELSE IF cal < Len(CALENDAR_IDS)
             THEN /\ cal' = cal + 1 /\ page' = 0 /\ served' = {}
                  /\ UNCHANGED pc
             ELSE \* the fetch function returns: its loop variables end
                  /\ pc' = IF task = "daily" THEN "patients" ELSE "summarize"
                  /\ cal' = 0 /\ page' = 0 /\ served' = {}
    /\ effects' = effects \cup {"calendar"}
    /\ UNCHANGED <<regVars, fnVars, task, secretOk, sheet0, now, pats, idx, not_found,
                   admin_text, pushed, resp, fault>>

\* a fetch loop that catches the exception and goes on with the events it
\* has
fetch_fails_caught ==
    /\ pc = "fetch"
    /\ page < MaxPages
    /\ fault' = "calendar"
    /\ effects' = effects \cup {"calendar"}
    /\ pc' = IF task = "daily" THEN "patients" ELSE "summarize"
    /\ UNCHANGED <<regVars, fnVars, task, secretOk, sheet0, now, cal, page, served,
                   results, pats, idx, not_found, admin_text, pushed, resp>>

\* _cal_service() or execute() raises: the exception leaves main() and the
\* trigger answers 500
fetch_fails ==
    /\ pc = "fetch"
    /\ page < MaxPages
    /\ fault' = "calendar"
    /\ effects' = effects \cup {"calendar"}
    /\ pc' = "done"
    /\ resp' = Failure("calendar")
    /\ UNCHANGED <<regVars, fnVars, task, secretOk, sheet0, now, cal, page, served,
                   results, pats, idx, not_found, admin_text, pushed>>

\* a read_patients that writes the rows it kept back to A2:C
read_registry_rewrites ==
    /\ pc = "patients"
    /\ header' = EnsuredHeader(header)
    /\ pats' = read_patients(rows)
    /\ rows' = read_patients(rows)
    /\ effects' = effects \cup {"sheet"}
    /\ pc' = "events"
    /\ idx' = 0
    /\ UNCHANGED <<call, prev, fnVars, task, secretOk, sheet0, now, cal, page,
                   served, results, not_found, admin_text, pushed, resp, fault>>

\* daily_push.main: pats = read_patients()
read_registry ==
    /\ pc = "patients"
    /\ header' = EnsuredHeader(header)
    /\ pats' = read_patients(rows)
    /\ effects' = effects \cup {"sheet"}
    /\ pc' = "events"
    /\ idx' = 0
    /\ UNCHANGED <<rows, call, prev, fnVars, task, secretOk, sheet0, now, cal, page,
                   served, results, not_found, admin_text, pushed, resp, fault>>

\* a Sheets call of read_patients raises, before or after _ensure_header
\* wrote row 1
read_registry_fails ==
    /\ pc = "patients"
    /\ header' \in {header, EnsuredHeader(header)}
    /\ fault' = "registry"
    /\ effects' = effects \cup {"sheet"}
    /\ pc' = "done"
    /\ resp' = Failure("registry")
    /\ UNCHANGED <<rows, call, prev, fnVars, task, secretOk, sheet0, now, cal, page,
                   served, results, pats, idx, not_found, admin_text, pushed>>

\* by_display.get(n) / by_real.get(n): the dict comprehension keeps the last
\* record of each key; <<>> stands for None
Lookup(ps, field, n) ==
    LET hits == {i \in 1..Len(ps) : ps[i][field] = n}
    IN  IF hits = {} THEN <<>>
        ELSE ps[CHOOSE i \in hits : \A j \in hits : j <= i].userId

\* uid = by_real.get(name) or by_display.get(name)
MatchPatient(ps, n) ==
    IF Lookup(ps, "realName", n) # <<>> THEN Lookup(ps, "realName", n)
    ELSE Lookup(ps, "displayName", n)

\* daily_push.main: one iteration of the loop over the events; ev in the
\* entries is kept for the properties only
process_event ==
    /\ pc = "events"
    /\ idx < Len(results)
    /\ idx' = idx + 1
    /\ LET ev == results[idx + 1]
           nm == extract_patient_name(ev.summary)
           uid == MatchPatient(pats, nm)
       IN  IF ~HasHyphen(ev.summary) \/ nm = <<>>
           THEN UNCHANGED <<not_found, pushed, effects>>
           ELSE IF uid # <<>>
           THEN \E ok \in BOOLEAN :
                   /\ pushed' = Append(pushed, [to |-> uid, kind |-> "reminder",
                                                ok |-> ok, ev |-> ev.id])
                   /\ effects' = effects \cup {"push"}
                   /\ not_found' = IF ok THEN not_found
                                   ELSE Append(not_found,
                                               [name |-> nm, failed |-> TRUE,
                                                ev |-> ev.id])
           ELSE /\ not_found' = Append(not_found, [name |-> nm, failed |-> FALSE,
                                                   ev |-> ev.id])
                /\ UNCHANGED <<pushed, effects>>
    /\ UNCHANGED <<regVars, fnVars, pc, task, secretOk, sheet0, now, cal, page, served, results,
                   pats, admin_text, resp, fault>>

\* daily_push.main: the digest, with sorted(set(not_found)) as follow-up list
build_digest ==
    /\ pc = "events"
    /\ idx = Len(results)
    /\ admin_text' =
          [kind |-> "digest",
           titles |-> [k \in 1..Len(results) |-> results[k].summary],
           followup |-> {[name |-> not_found[k].name,
                          failed |-> not_found[k].failed] :
                             k \in 1..Len(not_found)},
           counts |-> <<>>]
    /\ pc' = "admins"
    /\ idx' = 0
    /\ UNCHANGED <<regVars, fnVars, task, secretOk, sheet0, now, cal, page, served, results,
                   pats, not_found, pushed, resp, fault, effects>>

RECURSIVE summarize_month(_)
summarize_month(events) ==
    IF events = <<>> THEN <<0, 0, 0>>
    ELSE LET c == count_session_from_title(Head(events).summary)
             r == summarize_month(Tail(events))
         IN  <<c[1] + r[1], c[2] + r[2], c[3] + r[3]>>

\* monthly_stats.main: the counts and the report text
build_report ==
    /\ pc = "summarize"
    /\ admin_text' = [kind |-> "report", titles |-> <<>>, followup |-> {},
                      counts |-> summarize_month(results)]
    /\ IF ADMIN_USER_IDS = <<>>
       THEN pc' = "done" /\ resp' = Success
       ELSE pc' = "admins" /\ resp' = resp
    /\ idx' = 0
    /\ UNCHANGED <<regVars, fnVars, task, secretOk, sheet0, now, cal, page, served, results,
                   pats, not_found, pushed, fault, effects>>

\* the loop over ADMIN_USER_IDS of both main(): one push, its exception
\* swallowed
push_admin ==
    /\ pc = "admins"
    /\ idx < Len(ADMIN_USER_IDS)
    /\ \E ok \in BOOLEAN :
          pushed' = Append(pushed,
                           [to |-> ADMIN_USER_IDS[idx + 1],
                            kind |-> IF task = "daily" THEN "digest" ELSE "report",
                            ok |-> ok, ev |-> 0])
    /\ effects' = effects \cup {"push"}
    /\ idx' = idx + 1
    /\ UNCHANGED <<regVars, fnVars, pc, task, secretOk, sheet0, now, cal, page, served, results,
                   pats, not_found, admin_text, resp, fault>>

\* main() returns and the trigger answers 200
run_returns ==
    /\ pc = "admins"
    /\ idx = Len(ADMIN_USER_IDS)
    /\ pc' = "done"
    /\ resp' = Success
    /\ UNCHANGED <<regVars, fnVars, task, secretOk, sheet0, now, cal, page, served, results,
                   pats, idx, not_found, admin_text, pushed, fault, effects>>

Next ==
    \/ trigger_daily_push
    \/ trigger_monthly_stats
    \/ monthly_guard
    \/ fetch_page
    \/ fetch_fails
    \/ read_registry
    \/ read_registry_fails
    \/ process_event
    \/ build_digest
    \/ build_report
    \/ push_admin
    \/ run_returns

Spec == Init /\ [][Next]_vars

\* ------------------------------------------------------ the title functions
\* the characters of the enumerated titles: a letter, the hyphen, a blank,
\* the digits of the duration codes, "+", and the parentheses
TitleChars == {"a", "-", " ", "1", "2", "4", "5", "+", "(", ")", FullWidthParen}

\* the titles the code's docstrings and comments give as examples:
\* "8x- abc 2 (1F)", "x-ab(n)", "8x- abc", "x-ab 45m", "x-ab 2+1", "x-ab 2",
\* "x-ab", "x-ab 2+1 (1F)"
ExampleTitles ==
    { <<"8", "x", "-", " ", "a", "b", "c", " ", "2", " ", "(", "1", "F", ")">>,
      <<"x", "-", "a", "b", "(", "n", ")">>,
      <<"x", "-", "a", "b", FullWidthParen, "n", ")">>,
      <<"8", "x", "-", " ", "a", "b", "c">>,
      <<"x", "-", "a", "b", " ", "4", "5", "m">>,
      <<"x", "-", "a", "b", " ", "2", "+", "1">>,
      <<"x", "-", "a", "b", " ", "2">>,
      <<"x", "-", "a", "b">>,
      <<"x", "-", "a", "b", " ", "2", "+", "1", " ", "(", "1", "F", ")">> }

Titles == UNION {[1..k -> TitleChars] : k \in 0..MaxTitleLen} \cup ExampleTitles

InitTitle ==
    /\ title \in Titles
    /\ applied = None /\ sessions = <<>> /\ name = <<>>
    /\ today = NoDate /\ window = <<>>
    /\ header = HEADER /\ rows = <<>> /\ call = NoCall /\ prev = <<>>
    /\ RunIdle

classify ==
    /\ applied = None
    /\ applied' = "classify"
    /\ sessions' = count_session_from_title(title)
    /\ UNCHANGED <<title, name, today, window, regVars, runVars>>

extract_name ==
    /\ applied = None
    /\ applied' = "extract"
    /\ name' = extract_patient_name(title)
    /\ UNCHANGED <<title, sessions, today, window, regVars, runVars>>

NextTitle == classify \/ extract_name

SpecTitle == InitTitle /\ [][NextTitle]_vars

\* the last digit of the compound pattern that starts at digit position i
RECURSIVE CompoundEnd(_, _)
CompoundEnd(t, i) ==
    LET j == PlusGroup(t, i + 1)
    IN  IF j = 0 THEN i ELSE CompoundEnd(t, j)

\* t without a parenthetical annotation at its end
WithoutAnnotation(t) ==
    LET open == {k \in 1..Len(t) : t[k] = "("}
    IN  IF t # <<>> /\ t[Len(t)] = ")" /\ open # {}
        THEN Strip(SubSeq(t, 1, (CHOOSE k \in open : \A j \in open : j <= k) - 1))
        ELSE t

\* the tuple the four rules of the claim fix, first match wins
ClaimedSessions(ttl) ==
    LET t == Strip(ttl)
        i == RE_MULTI(t)
        u == WithoutAnnotation(t)
    IN  IF RE_45(t) THEN <<0, 0, 1>>
        ELSE IF i # 0
        THEN LET pat == SubSeq(t, i, CompoundEnd(t, i))
             IN  <<CountChar(pat, "2"), CountChar(pat, "1"), 0>>
        ELSE IF u # <<>> /\ u[Len(u)] = "2" THEN <<1, 0, 0>>
        ELSE IF u # <<>> /\ u[Len(u)] = "1" THEN <<0, 1, 0>>
        ELSE <<0, 1, 0>>

\* C5: for every title count_session_from_title returns the tuple fixed by
\* the four rules in precedence order: "45" gives (0,0,1); a compound of
\* digits joined by "+" is decomposed, only its own digits counting; a single
\* trailing digit, optionally followed by a parenthetical annotation, gives
\* (1,0,0) for 2 and (0,1,0) for 1; otherwise (0,1,0)
C5_Classifier == applied = "classify" => sessions = ClaimedSessions(title)

\* ------------------------------------------------- properties of the runs
\* the run is past its event loop / its summary
Aggregated == admin_text.kind # None

\* the sum of the classifier over the events whose title has a hyphen
RECURSIVE HyphenatedCounts(_)
HyphenatedCounts(events) ==
    IF events = <<>> THEN <<0, 0, 0>>
    ELSE LET c == IF HasHyphen(Head(events).summary)
                  THEN count_session_from_title(Head(events).summary)
                  ELSE <<0, 0, 0>>
             r == HyphenatedCounts(Tail(events))
         IN  <<c[1] + r[1], c[2] + r[2], c[3] + r[3]>>

\* C3: in the reminder pass and in the stats pass an event whose title has
\* no hyphen is skipped: it causes no patient push, no follow-up entry, and
\* adds nothing to the three duration-bucket counts
C3_NoHyphenSkipped ==
    /\ \A k \in 1..Len(results) :
          ~HasHyphen(results[k].summary) =>
              /\ \A i \in 1..Len(pushed) : pushed[i].ev # results[k].id
              /\ \A i \in 1..Len(not_found) : not_found[i].ev # results[k].id
    /\ (task = "monthly" /\ Aggregated) =>
          admin_text.counts = HyphenatedCounts(results)

\* the monthly run has passed its day-of-month guard
PastGuard ==
    /\ task = "monthly"
    /\ pc \in {"fetch", "summarize", "admins"} \/ effects # {}

C6_PartialFailure ==
    (pc = "done" /\ \E i \in 1..Len(pushed) : ~pushed[i].ok) =>
        /\ \A a \in 1..Len(ADMIN_USER_IDS) :
              \E i \in 1..Len(pushed) : pushed[i].to = ADMIN_USER_IDS[a]
        /\ resp.status \notin {"success", "error"}

\* C7: when fetching the calendar events or reading the registry fails, the
\* run ends with the error status (the cause in the answer) and no message
\* has been pushed in that run
C7_UpstreamAbort ==
    fault # None =>
        /\ pc = "done"
        /\ resp = Failure(fault)
        /\ pushed = <<>>
        /\ "push" \notin effects

\* the fetch fails on a later page of the last calendar, events collected
C7_Witness ==
    /\ fault = "calendar" /\ resp.code = 500
    /\ cal = Len(CALENDAR_IDS) /\ page > 0 /\ results # <<>>

\* C8: a trigger call whose secret matches neither in the header nor in the
\* key parameter is answered 401 and has no side effect: no calendar fetch,
\* no registry access, no push
C8_Unauthorized ==
    ~secretOk =>
        /\ pc = "done"
        /\ resp.code = 401 /\ resp.code # Failure(fault).code
        /\ effects = {} /\ pushed = <<>> /\ results = <<>>

\* an unauthorised call to the monthly endpoint was answered
C8_Witness == ~secretOk /\ task = "monthly" /\ resp.code = 401

\* the names extracted from the hyphenated titles that match no registry
\* entry, neither as realName nor as displayName
UnmatchedNames ==
    {extract_patient_name(results[k].summary) :
        k \in {j \in 1..Len(results) :
                  /\ HasHyphen(results[j].summary)
                  /\ extract_patient_name(results[j].summary) # <<>>
                  /\ \A i \in 1..Len(pats) :
                        /\ pats[i].realName #
                              extract_patient_name(results[j].summary)
                        /\ pats[i].displayName #
                              extract_patient_name(results[j].summary)}}

\* C9: after a reminder run the follow-up list of the digest holds exactly
\* the unmatched names: no entry for a matched patient, no exception text
C9_FollowUp ==
    (task = "daily" /\ Aggregated) =>
        admin_text.followup =
            {[name |-> n, failed |-> FALSE] : n \in UnmatchedNames}

\* C10: the event list handed to the aggregation holds each calendar event
\* at most once, so that one appointment gets at most one reminder and is
\* counted at most once
C10_NoDuplicateEvents ==
    /\ \A i, j \in 1..Len(results) : i # j => results[i].id # results[j].id
    /\ \A i, j \in 1..Len(pushed) :
          (i # j /\ pushed[i].kind = "reminder") => pushed[i].ev # pushed[j].ev

\* ------------------------------------------- properties of the name parser
\* the part of the raw title after its first hyphen, the whole title when
\* it has none, read character by character
RECURSIVE CandidatePart(_, _)
CandidatePart(t, whole) ==
    IF t = <<>> THEN whole
    ELSE IF Head(t) = "-" THEN Tail(t)
    ELSE CandidatePart(Tail(t), whole)

\* s up to its first digit, "(" or full-width "("
RECURSIVE UpToStop(_)
UpToStop(s) ==
    IF s = <<>> THEN <<>>
    ELSE IF IsDigit(Head(s)) \/ Head(s) \in {"(", FullWidthParen} THEN <<>>
    ELSE <<Head(s)>> \o UpToStop(Tail(s))

\* the name the claim describes
ClaimedName(t) == Strip(UpToStop(Strip(CandidatePart(t, t))))

OnlyHyphen(t) == Strip(t) = <<"-">>
OnlyDigits(t) == t # <<>> /\ \A k \in 1..Len(t) : IsDigit(t[k])

\* C11: for every title extract_patient_name returns the part after the
\* first hyphen (the whole title without one), trimmed, cut at the first
\* digit or opening parenthesis and trimmed again; so the result holds no
\* digit and no opening parenthesis, has no blank at either end, is empty for
\* a title that is only a hyphen or only digits, and the three documented
\* examples give "abc", "ab" and "abc"
C11_ExtractName ==
    applied = "extract" =>
        /\ name = ClaimedName(title)
        /\ \A k \in 1..Len(name) :
              ~IsDigit(name[k]) /\ name[k] \notin {"(", FullWidthParen}
        /\ name # <<>> => ~IsSpace(name[1]) /\ ~IsSpace(name[Len(name)])
        /\ (OnlyHyphen(title) \/ OnlyDigits(title)) => name = <<>>
        /\ title = <<"8", "x", "-", " ", "a", "b", "c", " ", "2", " ",
                     "(", "1", "F", ")">> => name = <<"a", "b", "c">>
        /\ title = <<"x", "-", "a", "b", "(", "n", ")">> => name = <<"a", "b">>
        /\ title = <<"8", "x", "-", " ", "a", "b", "c">> => name = <<"a", "b", "c">>

\* the first documented example has been parsed
C11_Witness ==
    /\ applied = "extract"
    /\ title = <<"8", "x", "-", " ", "a", "b", "c", " ", "2", " ",
                 "(", "1", "F", ")">>
    /\ name = <<"a", "b", "c">>

\* ------------------------------------------------------ the month window
\* the years the days of the window specification are drawn from: common
\* years, a leap year, a century year that is leap and one that is not
WindowYears == {2000, 2023, 2024, 2025, 2100}

WindowDates ==
    {dt \in [y : WindowYears, m : 1..12, d : 1..31] :
        dt.d <= DaysInMonth(dt.y, dt.m)}

InitWindow ==
    /\ today \in WindowDates
    /\ window = <<>>
    /\ title = <<>> /\ applied = None /\ sessions = <<>> /\ name = <<>>
    /\ header = HEADER /\ rows = <<>> /\ call = NoCall /\ prev = <<>>
    /\ RunIdle

\* start, end = month_range(now); the datetime constructor puts both bounds
\* at 00:00
compute_month_range ==
    /\ window = <<>>
    /\ window' = month_range(today)
    /\ UNCHANGED <<title, applied, sessions, name, today, regVars, runVars>>

NextWindow == compute_month_range

SpecWindow == InitWindow /\ [][NextWindow]_vars

\* days from 1 January of year 1 to 1 January of year y
DaysBeforeYear(y) ==
    365 * (y - 1) + ((y - 1) \div 4) - ((y - 1) \div 100) + ((y - 1) \div 400)

\* days from 1 January of year y to the first day of its month m
RECURSIVE DaysBeforeMonth(_, _)
DaysBeforeMonth(y, m) ==
    IF m <= 1 THEN 0 ELSE DaysInMonth(y, m - 1) + DaysBeforeMonth(y, m - 1)

\* date.toordinal(): the day number, so that end - start is a difference
ToOrdinal(dt) == DaysBeforeYear(dt.y) + DaysBeforeMonth(dt.y, dt.m) + dt.d

\* C12: for every day now, of any month of a leap or a common year,
\* month_range(now) is [start, end) with start the first day of now's month,
\* end the first day of the following month (January of the next year for
\* December), start < end, and end - start the number of days of now's
\* month: 29 for February 2024, 28 for February 2023
C12_MonthRange ==
    window # <<>> =>
        LET start == window[1]
            end == window[2]
        IN  /\ start = [y |-> today.y, m |-> today.m, d |-> 1]
            /\ end.d = 1
            /\ end.m = (IF today.m = 12 THEN 1 ELSE today.m + 1)
            /\ end.y = (IF today.m = 12 THEN today.y + 1 ELSE today.y)
            /\ ToOrdinal(start) < ToOrdinal(end)
            /\ ToOrdinal(end) - ToOrdinal(start) = DaysInMonth(today.y, today.m)
            /\ (today.y = 2024 /\ today.m = 2) =>
                  ToOrdinal(end) - ToOrdinal(start) = 29
            /\ (today.y = 2023 /\ today.m = 2) =>
                  ToOrdinal(end) - ToOrdinal(start) = 28

\* the window of 1 February 2024 ends on 1 March 2024, 29 days later
C12_Witness ==
    /\ today = [y |-> 2024, m |-> 2, d |-> 1]
    /\ window = <<[y |-> 2024, m |-> 2, d |-> 1], [y |-> 2024, m |-> 3, d |-> 1]>>
    /\ ToOrdinal(window[2]) - ToOrdinal(window[1]) = 29

\* ------------------------------------------------ the sheet during a run
\* a reminder run in progress, or ended and not yet followed by another
DailyRun == task = "daily" /\ secretOk /\ pc # "idle"

\* C13 as claimed: a reminder run only reads the registry; whatever row 1
\* held, the sheet during and after the run is the sheet before the run
C13_SheetUnchangedClaimed ==
    DailyRun => (header = sheet0.header /\ rows = sheet0.rows)

\* C13: a reminder run writes no data row (rows 2.. during and after the run
\* are the rows before it); the only cells it writes are A1:C1, which
\* read_patients sets to HEADER when row 1 held anything else, and leaves
\* alone when it held HEADER
C13_SheetWrites ==
    DailyRun =>
        /\ rows = sheet0.rows
        /\ \/ header = sheet0.header
           \/ header = HEADER /\ "sheet" \in effects
        /\ (sheet0.header = HEADER) => (header = HEADER)
        /\ (pc \in {"events", "admins"}) => (header = HEADER)

\* a run that started from an empty row 1 ends with 200 and a header row
C13_Witness ==
    /\ task = "daily" /\ pc = "done" /\ resp.code = 200
    /\ sheet0.header = <<>> /\ header = HEADER
    /\ rows = sheet0.rows /\ Len(rows) > 1

====
